---- MODULE Spec2Model ----
(***************************************************************************)
(* Effects / Cmd composition layer of sauron-core (dom/effects.rs,         *)
(* dom/cmd.rs).  Effects bundles and Cmds are records, callbacks are       *)
(* records naming the closure that was boxed, and one program handle       *)
(* records every call made on it in `trace`.                               *)
(***************************************************************************)
EXTENDS Integers, Sequences, FiniteSets, TLC

VARIABLES
    fx,        \* the Effects<MSG, ()> bundle an update function is building, or NoFx
    pool,      \* the Cmd value constructed and about to be merged: <<>> or <<c>>
    cmd,       \* the Cmd instance that gets emitted, or NoCmd
    st,        \* life cycle of that instance: "Absent", "Constructed", "Emitted"
    hist,      \* how `cmd` was built while it is a single conversion
    emitted,   \* the callback queue emit consumed
    tasks,     \* the Task values created so far; a task's id is its index
    done,      \* ids of the asynchronous tasks whose future has completed
    runq,      \* spawn_local's queue of futures waiting to be polled
    waiting,   \* spawned futures that were polled while still pending
    trace,     \* every call observed on the program, in order
    view,      \* the program's rendering: the modifier it runs under, renders made
    args,      \* Effects algebra: the input bundles
    res,       \* Effects algebra: the last operation applied and its result
    cargs,     \* Cmd algebra: the input commands
    cself,     \* Cmd algebra: the receiver of push / append
    cres       \* Cmd algebra: the results of batch and of append

vars == <<fx, pool, cmd, st, hist, emitted, tasks, done, runq, waiting, trace,
          view, args, res, cargs, cself, cres>>

runtimeVars == <<fx, pool, cmd, st, hist, emitted, tasks, done, runq, waiting, trace,
                 view>>
fxVars == <<args, res>>
cmdVars == <<cargs, cself, cres>>

----------------------------------------------------------------------------
(* Bounds *)

MaxTasks == 2     \* Task values created in one run
MaxQueue == 2     \* callbacks queued in the Cmd values of one run
MaxItems == 3     \* Effects algebra: tasks in the input bundles, all together
MaxBundles == 2   \* Effects algebra: input bundles
MaxCmds == 2      \* Cmd algebra: input commands

Msgs == {"Inc", "Dec"}
Fns == {"f", "g"}            \* closures handed to Cmd::new
Names == {"n1", "n2"}        \* names handed to measure_with_name
Unit == "()"                 \* the one value of the external type of Effects<MSG, ()>
Pending == "Pending"         \* what an un-awaited, unresolved task holds

\* The mapping functions handed to map_msg, map_external and localize.
Swap == [m \in Msgs |-> IF m = "Inc" THEN "Dec" ELSE "Inc"]
ConstInc == [m \in Msgs |-> "Inc"]
Fs == {Swap, ConstInc}

SeqsUpTo(S, n) == UNION {[1..k -> S] : k \in 0..n}

----------------------------------------------------------------------------
(* Modifier: should_update_view, log_measurements, measurement_name *)

Modifier_default ==
    [should_update_view |-> TRUE, log_measurements |-> FALSE, measurement_name |-> ""]

coalesce(self, other) ==
    [should_update_view |-> self.should_update_view \/ other.should_update_view,
     log_measurements   |-> self.log_measurements \/ other.log_measurements,
     measurement_name   |-> IF other.measurement_name # ""
                            THEN other.measurement_name ELSE self.measurement_name]

----------------------------------------------------------------------------
(* Task: a one-shot future yielding `out`.  `ready` tasks wrap               *)
(* std::future::ready(value) and hold their value from construction.        *)

Task_new(id, out, ready) == [id |-> id, out |-> out, ready |-> ready]

Task_map_msg(task, f) == [task EXCEPT !.out = f[task.out]]

NoTask == Task_new(0, "", TRUE)

IsResolved(task, completed) == task.ready \/ task.id \in completed

\* What a consumer that does not await the task can take out of it.
Held(task, completed) == IF IsResolved(task, completed) THEN task.out ELSE Pending

TasksFrom(base, vals, ready) ==
    [i \in 1..Len(vals) |-> Task_new(base + i, vals[i], ready)]

----------------------------------------------------------------------------
(* Effects<MSG, XMSG>: local tasks, external tasks, modifier.  `base` is the  *)
(* number of tasks that exist already; new tasks get the ids after it.        *)

Effects_new(base, local, external) ==
    [local    |-> TasksFrom(base, local, TRUE),
     external |-> TasksFrom(base + Len(local), external, TRUE),
     modifier |-> Modifier_default]

Effects_with_async(base, local, external) ==
    [local    |-> TasksFrom(base, local, FALSE),
     external |-> TasksFrom(base + Len(local), external, FALSE),
     modifier |-> Modifier_default]

Effects_with_local(base, local) ==
    [local    |-> TasksFrom(base, local, TRUE),
     external |-> <<>>,
     modifier |-> Modifier_default]

Effects_with_local_async(base, local) ==
    [local    |-> TasksFrom(base, local, FALSE),
     external |-> <<>>,
     modifier |-> Modifier_default]

Effects_with_external(base, external) ==
    [local    |-> <<>>,
     external |-> TasksFrom(base, external, TRUE),
     modifier |-> Modifier_default]

Effects_with_external_async(base, external) ==
    [local    |-> <<>>,
     external |-> TasksFrom(base, external, FALSE),
     modifier |-> Modifier_default]

Effects_none == [local |-> <<>>, external |-> <<>>, modifier |-> Modifier_default]

\* A variant that rewrites the tasks of both channels.
Effects_map_msg_both(self, f) ==
    [local    |-> [i \in 1..Len(self.local) |-> Task_map_msg(self.local[i], f)],
     external |-> [i \in 1..Len(self.external) |-> Task_map_msg(self.external[i], f)],
     modifier |-> self.modifier]

Effects_map_msg(self, f) ==
    [local    |-> [i \in 1..Len(self.local) |-> Task_map_msg(self.local[i], f)],
     external |-> self.external,
     modifier |-> self.modifier]

Effects_map_external(self, f) ==
    [local    |-> self.local,
     external |-> [i \in 1..Len(self.external) |-> Task_map_msg(self.external[i], f)],
     modifier |-> self.modifier]

\* A variant that puts the translated local tasks first.
Effects_localize_local_first(self, f) ==
    [local    |-> [i \in 1..Len(self.local) |-> Task_map_msg(self.local[i], f)]
                  \o self.external,
     external |-> <<>>,
     modifier |-> self.modifier]

Effects_localize(self, f) ==
    [local    |-> self.external \o
                  [i \in 1..Len(self.local) |-> Task_map_msg(self.local[i], f)],
     external |-> <<>>,
     modifier |-> self.modifier]

Effects_append_local(self, base, local) ==
    [self EXCEPT !.local = self.local \o TasksFrom(base, local, TRUE)]

Effects_no_render(self) == [self EXCEPT !.modifier.should_update_view = FALSE]

Effects_measure(self) == [self EXCEPT !.modifier.log_measurements = TRUE]

Effects_measure_with_name(self, name) ==
    Effects_measure([self EXCEPT !.modifier.measurement_name = name])

\* A variant that extends the local channel with the external tasks too.
RECURSIVE Effects_batch_loop_mixed(_, _, _)
Effects_batch_loop_mixed(all_effects, i, acc) ==
    IF i > Len(all_effects) THEN acc
    ELSE LET effect == all_effects[i] IN
         Effects_batch_loop_mixed(all_effects, i + 1,
            [local    |-> acc.local \o effect.local \o effect.external,
             external |-> acc.external,
             modifier |-> coalesce(acc.modifier, effect.modifier)])

RECURSIVE Effects_batch_loop(_, _, _)
Effects_batch_loop(all_effects, i, acc) ==
    IF i > Len(all_effects) THEN acc
    ELSE LET effect == all_effects[i] IN
         Effects_batch_loop(all_effects, i + 1,
            [local    |-> acc.local \o effect.local,
             external |-> acc.external \o effect.external,
             modifier |-> coalesce(acc.modifier, effect.modifier)])

Effects_batch(all_effects) ==
    Effects_batch_loop(all_effects, 1,
        [local |-> <<>>, external |-> <<>>, modifier |-> Modifier_default])

Effects_extend(self, base, local, external) ==
    [self EXCEPT !.local = self.local \o TasksFrom(base, local, TRUE),
                 !.external = self.external \o
                              TasksFrom(base + Len(local), external, TRUE)]

Effects_from_Task(task) ==
    [local |-> <<task>>, external |-> <<>>, modifier |-> Modifier_default]

----------------------------------------------------------------------------
(* Cmd<APP, MSG>: a queue of boxed FnOnce(Program) callbacks and a modifier. *)
(* A callback is the record of the closure that was boxed:                   *)
(*   "fn"        a caller's closure handed to Cmd::new                       *)
(*   "batch_msg" the closure of Cmd::batch_msg, capturing msg_list           *)
(*   "task"      the closure of From<Task>, capturing the task               *)

NoCb == [kind |-> "", f |-> "", msg_list |-> <<>>, task |-> NoTask]

Closure(f) == [kind |-> "fn", f |-> f, msg_list |-> <<>>, task |-> NoTask]

Cmd_new(f) == [commands |-> <<f>>, modifier |-> Modifier_default]

\* A merge that assigns the incoming flag instead of raising it.
merge_flag_assign(flag, cmd_flag) == cmd_flag

\* `if cmd.modifier.flag { flag = true }`
merge_flag(flag, cmd_flag) == IF cmd_flag THEN TRUE ELSE flag

RECURSIVE Cmd_batch_loop(_, _, _)
Cmd_batch_loop(cmds, i, acc) ==
    IF i > Len(cmds) THEN acc
    ELSE LET c == cmds[i] IN
         Cmd_batch_loop(cmds, i + 1,
            [commands |-> acc.commands \o c.commands,
             should_update_view |->
                 merge_flag(acc.should_update_view, c.modifier.should_update_view),
             log_measurements |->
                 merge_flag(acc.log_measurements, c.modifier.log_measurements)])

Cmd_batch(cmds) ==
    LET r == Cmd_batch_loop(cmds, 1,
                 [commands |-> <<>>, should_update_view |-> FALSE,
                  log_measurements |-> FALSE])
    IN  [commands |-> r.commands,
         modifier |-> [Modifier_default EXCEPT
                          !.should_update_view = r.should_update_view,
                          !.log_measurements = r.log_measurements]]

RECURSIVE Cmd_append_loop(_, _, _)
Cmd_append_loop(self, cmds, i) ==
    IF i > Len(cmds) THEN self
    ELSE LET c == cmds[i] IN
         Cmd_append_loop(
            [commands |-> self.commands \o c.commands,
             modifier |-> [self.modifier EXCEPT
                 !.should_update_view =
                     merge_flag(self.modifier.should_update_view,
                                c.modifier.should_update_view),
                 !.log_measurements =
                     merge_flag(self.modifier.log_measurements,
                                c.modifier.log_measurements)]],
            cmds, i + 1)

\* A variant that puts the appended queues in front of self's own.
Cmd_append_prepending(self, cmds) ==
    LET r == Cmd_append_loop(self, cmds, 1) IN
    [r EXCEPT !.commands = SubSeq(r.commands, Len(self.commands) + 1, Len(r.commands))
                           \o self.commands]

Cmd_append(self, cmds) == Cmd_append_loop(self, cmds, 1)

Cmd_push(self, c) == Cmd_append(self, <<c>>)

\* A variant whose queue holds a closure dispatching an empty batch.
Cmd_none_batching ==
    [commands |-> <<[kind |-> "batch_msg", f |-> "", msg_list |-> <<>>, task |-> NoTask]>>,
     modifier |-> Modifier_default]

Cmd_none == [commands |-> <<>>, modifier |-> Modifier_default]

Cmd_should_update_view(self, should_update_view) ==
    [self EXCEPT !.modifier.should_update_view = should_update_view]

Cmd_no_render(self) == [self EXCEPT !.modifier.should_update_view = FALSE]

Cmd_measure(self) == [self EXCEPT !.modifier.log_measurements = TRUE]

Cmd_measure_with_name(self, name) ==
    [Cmd_measure(self) EXCEPT !.modifier.measurement_name = name]

Cmd_batch_msg(msg_list) ==
    Cmd_new([kind |-> "batch_msg", f |-> "", msg_list |-> msg_list, task |-> NoTask])

\* A variant that hands the tasks of both channels to the closure.
Cmd_from_Effects_with_external(effects) ==
    [Cmd_batch_msg(effects.local \o effects.external) EXCEPT !.modifier = effects.modifier]

Cmd_from_Effects(effects) ==
    [Cmd_batch_msg(effects.local) EXCEPT !.modifier = effects.modifier]

\* Effects::merge_all(effects): one bundle out of the sequence, batched.
Effects_merge_all(all_effects) == Effects_batch(all_effects)

Cmd_from_Vec(effects) == Cmd_from_Effects(Effects_merge_all(effects))

Cmd_from_Task(task) ==
    Cmd_new([kind |-> "task", f |-> "", msg_list |-> <<>>, task |-> task])

----------------------------------------------------------------------------
(* Program handle.  Every duplicate is a handle to the one program, whose    *)
(* calls are the events of `trace`; `handle` tells the duplicates apart.     *)

Ev(ev, cb, handle, msgs, task) ==
    [ev |-> ev, cb |-> cb, handle |-> handle, msgs |-> msgs, task |-> task]

\* program.clone() for the n-th callback of emit: duplicate number n.
Program_clone(program, n) == n

Program_dispatch(program, msg, task) == Ev("dispatch", NoCb, program, <<msg>>, task)

Program_dispatch_multiple(program, msgs) ==
    Ev("dispatch_multiple", NoCb, program, msgs, 0)

\* The update and conditional render that follow the dispatch calls among
\* `events`: one render for each call when the modifier the program runs under
\* asks for the view to be updated, none otherwise.
Program_renders(modifier, events) ==
    IF modifier.should_update_view
    THEN Len(SelectSeq(events, LAMBDA e : e.ev \in {"dispatch", "dispatch_multiple"}))
    ELSE 0

\* A variant that polls a future handed to it before returning to the caller.
spawn_local_eager(fut, acc) ==
    LET spawned == Append(acc.trace, Ev("spawn", NoCb, fut.program, <<>>, fut.task.id)) IN
    IF fut.task.ready
    THEN [trace |-> Append(spawned,
                        Program_dispatch(fut.program, fut.task.out, fut.task.id)),
          runq  |-> acc.runq]
    ELSE [trace |-> spawned, runq |-> Append(acc.runq, fut)]

\* spawn_local(future): the future is queued and polled after the caller returns.
spawn_local(fut, acc) ==
    [trace |-> Append(acc.trace, Ev("spawn", NoCb, fut.program, <<>>, fut.task.id)),
     runq  |-> Append(acc.runq, fut)]

\* A continuation that dispatches without awaiting the task.
poll_no_await(fut, completed) ==
    <<Program_dispatch(fut.program, Held(fut.task, completed), fut.task.id)>>

\* One poll of `async move { let msg = task.await; program.dispatch(msg) }`:
\* the events it produces; none while the task is pending.
poll(fut, completed) ==
    IF IsResolved(fut.task, completed)
    THEN <<Program_dispatch(fut.program, fut.task.out, fut.task.id)>>
    ELSE <<>>

\* A variant whose Task-derived closure dispatches on the spot and spawns
\* nothing.
call_without_spawn(cb, i, program, completed, acc) ==
    LET called == [acc EXCEPT !.trace = Append(@, Ev("call", cb, program, <<>>, 0))] IN
    CASE cb.kind = "fn" -> called
      [] cb.kind = "batch_msg" ->
            [called EXCEPT !.trace = Append(@,
                Program_dispatch_multiple(program,
                    [j \in 1..Len(cb.msg_list) |-> Held(cb.msg_list[j], completed)]))]
      [] cb.kind = "task" ->
            [called EXCEPT !.trace = Append(@,
                Program_dispatch(program, Held(cb.task, completed), cb.task.id))]

\* cb(program_clone): run the boxed closure number i of the queue.
call(cb, i, program, completed, acc) ==
    LET called == [acc EXCEPT !.trace = Append(@, Ev("call", cb, program, <<>>, 0))] IN
    CASE cb.kind = "fn" -> called
      [] cb.kind = "batch_msg" ->
            [called EXCEPT !.trace = Append(@,
                Program_dispatch_multiple(program,
                    [j \in 1..Len(cb.msg_list) |-> Held(cb.msg_list[j], completed)]))]
      [] cb.kind = "task" ->
            spawn_local([task |-> cb.task, program |-> program], called)

RECURSIVE emit_loop(_, _, _, _, _)
emit_loop(commands, i, program, completed, acc) ==
    IF i > Len(commands) THEN acc
    ELSE LET program_clone == Program_clone(program, i) IN
         emit_loop(commands, i + 1, program, completed,
                   call(commands[i], i, program_clone, completed, acc))

Reverse(q) == [k \in 1..Len(q) |-> q[Len(q) + 1 - k]]

\* A variant that walks the queue from its back.
emit_reversed(self, program, completed, acc) ==
    LET r == emit_loop(Reverse(self.commands), 1, program, completed, acc)
    IN  [r EXCEPT !.trace = Append(@, Ev("emit_return", NoCb, program, <<>>, 0))]

emit(self, program, completed, acc) ==
    LET r == emit_loop(self.commands, 1, program, completed, acc)
    IN  [r EXCEPT !.trace = Append(@, Ev("emit_return", NoCb, program, <<>>, 0))]

----------------------------------------------------------------------------
(* Runtime specification: an update function builds a bundle, Cmd values are *)
(* constructed and merged, one Cmd is emitted, and the scheduler then runs   *)
(* what emit spawned.                                                        *)

Origin(kind, bundle, task) == [kind |-> kind, fx |-> bundle, task |-> task]

PoolCmds == [i \in 1..Len(pool) |-> pool[i].cmd]

Queued ==
    LET RECURSIVE Sum(_)
        Sum(i) == IF i = 0 THEN 0 ELSE Len(pool[i].cmd.commands) + Sum(i - 1)
    IN  Sum(Len(pool)) + (IF cmd = <<>> THEN 0 ELSE Len(cmd[1].commands))

Building == st # "Emitted"

algIdle == UNCHANGED <<fxVars, cmdVars>>

runtimeIdle == UNCHANGED runtimeVars

\* Nothing built, nothing emitted, nothing spawned.
RuntimeInit ==
    /\ fx = <<>> /\ pool = <<>> /\ cmd = <<>> /\ st = "Absent"
    /\ hist = Origin("absent", <<>>, 0)
    /\ emitted = <<>> /\ tasks = <<>> /\ done = {}
    /\ runq = <<>> /\ waiting = {} /\ trace = <<>>
    /\ view = [modifier |-> Modifier_default, renders |-> 0]

Init ==
    /\ RuntimeInit
    /\ args = <<>> /\ res = <<>> /\ cargs = <<>> /\ cself = <<>> /\ cres = <<>>

FxWithLocal(vals) ==
    /\ Building /\ fx = <<>> /\ Len(tasks) + Len(vals) <= MaxTasks
    /\ LET e == Effects_with_local(Len(tasks), vals) IN
          /\ fx' = <<e>>
          /\ tasks' = tasks \o e.local
    /\ UNCHANGED <<pool, cmd, st, hist, emitted, done, runq, waiting, trace, view>>
    /\ algIdle

FxWithLocalAsync(vals) ==
    /\ Building /\ fx = <<>> /\ Len(tasks) + Len(vals) <= MaxTasks
    /\ LET e == Effects_with_local_async(Len(tasks), vals) IN
          /\ fx' = <<e>>
          /\ tasks' = tasks \o e.local
    /\ UNCHANGED <<pool, cmd, st, hist, emitted, done, runq, waiting, trace, view>>
    /\ algIdle

FxAppendLocal(vals) ==
    /\ Building /\ fx # <<>> /\ vals # <<>> /\ Len(tasks) + Len(vals) <= MaxTasks
    /\ LET e == Effects_append_local(fx[1], Len(tasks), vals) IN
          /\ fx' = <<e>>
          /\ tasks' = tasks \o TasksFrom(Len(tasks), vals, TRUE)
    /\ UNCHANGED <<pool, cmd, st, hist, emitted, done, runq, waiting, trace, view>>
    /\ algIdle

FxNoRender ==
    /\ Building /\ fx # <<>>
    /\ fx' = <<Effects_no_render(fx[1])>>
    /\ UNCHANGED <<pool, cmd, st, hist, emitted, tasks, done, runq, waiting, trace, view>>
    /\ algIdle

Units(n) == [i \in 1..n |-> Unit]

FxWithExternal(n, ready) ==
    /\ Building /\ fx = <<>> /\ Len(tasks) + n <= MaxTasks
    /\ LET e == IF ready THEN Effects_with_external(Len(tasks), Units(n))
                         ELSE Effects_with_external_async(Len(tasks), Units(n)) IN
          /\ fx' = <<e>>
          /\ tasks' = tasks \o e.external
    /\ UNCHANGED <<pool, cmd, st, hist, emitted, done, runq, waiting, trace, view>>
    /\ algIdle

FxExtend(vals, n) ==
    /\ Building /\ fx # <<>> /\ Len(vals) + n > 0
    /\ Len(tasks) + Len(vals) + n <= MaxTasks
    /\ LET e == Effects_extend(fx[1], Len(tasks), vals, Units(n)) IN
          /\ fx' = <<e>>
          /\ tasks' = tasks \o TasksFrom(Len(tasks), vals, TRUE)
                          \o TasksFrom(Len(tasks) + Len(vals), Units(n), TRUE)
    /\ UNCHANGED <<pool, cmd, st, hist, emitted, done, runq, waiting, trace, view>>
    /\ algIdle

FxMeasureWithName(name) ==
    /\ Building /\ fx # <<>>
    /\ fx' = <<Effects_measure_with_name(fx[1], name)>>
    /\ UNCHANGED <<pool, cmd, st, hist, emitted, tasks, done, runq, waiting, trace, view>>
    /\ algIdle

MkFromEffects ==
    /\ Building /\ fx # <<>> /\ pool = <<>> /\ Queued < MaxQueue
    /\ pool' = Append(pool, [cmd  |-> Cmd_from_Effects(fx[1]),
                             from |-> Origin("effects", fx, 0)])
    /\ fx' = <<>>
    /\ UNCHANGED <<cmd, st, hist, emitted, tasks, done, runq, waiting, trace, view>>
    /\ algIdle

MkFromTask(out, ready) ==
    /\ Building /\ pool = <<>> /\ Queued < MaxQueue /\ Len(tasks) < MaxTasks
    /\ LET task == Task_new(Len(tasks) + 1, out, ready) IN
          /\ tasks' = Append(tasks, task)
          /\ pool' = Append(pool, [cmd  |-> Cmd_from_Task(task),
                                   from |-> Origin("task", <<>>, task.id)])
    /\ UNCHANGED <<fx, cmd, st, hist, emitted, done, runq, waiting, trace, view>>
    /\ algIdle

MkNew(f) ==
    /\ Building /\ pool = <<>> /\ Queued < MaxQueue
    /\ pool' = Append(pool, [cmd |-> Cmd_new(Closure(f)), from |-> Origin("new", <<>>, 0)])
    /\ UNCHANGED <<fx, cmd, st, hist, emitted, tasks, done, runq, waiting, trace, view>>
    /\ algIdle

MkNone ==
    /\ Building /\ pool = <<>>
    /\ pool' = Append(pool, [cmd |-> Cmd_none, from |-> Origin("none", <<>>, 0)])
    /\ UNCHANGED <<fx, cmd, st, hist, emitted, tasks, done, runq, waiting, trace, view>>
    /\ algIdle

\* A constructed Cmd is used as it is.
Take ==
    /\ st = "Absent" /\ pool # <<>>
    /\ cmd' = <<Head(pool).cmd>> /\ hist' = Head(pool).from
    /\ pool' = Tail(pool) /\ st' = "Constructed"
    /\ UNCHANGED <<fx, emitted, tasks, done, runq, waiting, trace, view>>
    /\ algIdle

DoBatch ==
    /\ st = "Absent"
    /\ cmd' = <<Cmd_batch(PoolCmds)>> /\ hist' = Origin("batch", <<>>, 0)
    /\ pool' = <<>> /\ st' = "Constructed"
    /\ UNCHANGED <<fx, emitted, tasks, done, runq, waiting, trace, view>>
    /\ algIdle

DoAppend ==
    /\ st = "Constructed"
    /\ cmd' = <<Cmd_append(cmd[1], PoolCmds)>> /\ hist' = Origin("append", <<>>, 0)
    /\ pool' = <<>>
    /\ UNCHANGED <<fx, st, emitted, tasks, done, runq, waiting, trace, view>>
    /\ algIdle

DoPush ==
    /\ st = "Constructed" /\ pool # <<>>
    /\ cmd' = <<Cmd_push(cmd[1], Head(pool).cmd)>> /\ hist' = Origin("push", <<>>, 0)
    /\ pool' = Tail(pool)
    /\ UNCHANGED <<fx, st, emitted, tasks, done, runq, waiting, trace, view>>
    /\ algIdle

\* cmd.emit(&program): consumes the Cmd.  Values that were not merged into it
\* play no part in its emission, so it is emitted once none is left over.
Emit ==
    /\ st = "Constructed" /\ pool = <<>> /\ fx = <<>>
    /\ LET r == emit(cmd[1], 0, done, [trace |-> trace, runq |-> runq]) IN
          /\ trace' = r.trace
          /\ runq' = r.runq
          /\ view' = [modifier |-> cmd[1].modifier,
                      renders  |-> view.renders
                                   + Program_renders(cmd[1].modifier,
                                         SubSeq(r.trace, Len(trace) + 1, Len(r.trace)))]
    /\ emitted' = cmd[1].commands
    /\ cmd' = <<>> /\ st' = "Emitted"
    /\ UNCHANGED <<fx, pool, hist, tasks, done, waiting>>
    /\ algIdle

\* The scheduler polls the next spawned future.
Poll ==
    /\ runq # <<>>
    /\ LET fut == Head(runq) IN
          /\ trace' = trace \o poll(fut, done)
          /\ view' = [view EXCEPT
                         !.renders = @ + Program_renders(view.modifier, poll(fut, done))]
          /\ waiting' = IF IsResolved(fut.task, done) THEN waiting ELSE waiting \cup {fut}
    /\ runq' = Tail(runq)
    /\ UNCHANGED <<fx, pool, cmd, st, hist, emitted, tasks, done>>
    /\ algIdle

\* The future of an asynchronous task completes and wakes whoever awaits it.
\* Construction and emit are one synchronous turn on the single thread, so a
\* future completes only once emit has returned to the scheduler; it may never
\* complete.
Resolve(id) ==
    /\ st = "Emitted" /\ ~tasks[id].ready /\ id \notin done
    /\ done' = done \cup {id}
    /\ LET woken == {w \in waiting : w.task.id = id} IN
          /\ waiting' = waiting \ woken
          /\ runq' = IF woken = {} THEN runq ELSE Append(runq, CHOOSE w \in woken : TRUE)
    /\ UNCHANGED <<fx, pool, cmd, st, hist, emitted, tasks, trace, view>>
    /\ algIdle

Next ==
    \/ \E vals \in SeqsUpTo(Msgs, MaxTasks) : FxWithLocal(vals)
    \/ \E vals \in SeqsUpTo(Msgs, MaxTasks) : FxWithLocalAsync(vals)
    \/ \E vals \in SeqsUpTo(Msgs, MaxTasks) : FxAppendLocal(vals)
    \/ FxNoRender
    \/ MkFromEffects
    \/ \E out \in Msgs, ready \in BOOLEAN : MkFromTask(out, ready)
    \/ \E f \in Fns : MkNew(f)
    \/ MkNone
    \/ Take
    \/ DoBatch
    \/ DoAppend
    \/ DoPush
    \/ Emit
    \/ Poll
    \/ \E id \in 1..Len(tasks) : Resolve(id)

Spec == Init /\ [][Next]_vars

\* The conversion of one bundle on its own: an update function builds a bundle
\* and sets its modifier, the bundle is converted, and that Cmd is emitted.
NextConv ==
    \/ \E vals \in SeqsUpTo(Msgs, MaxTasks) : FxWithLocal(vals)
    \/ \E vals \in SeqsUpTo(Msgs, MaxTasks) : FxWithLocalAsync(vals)
    \/ \E vals \in SeqsUpTo(Msgs, MaxTasks) : FxAppendLocal(vals)
    \/ \E n \in 0..MaxTasks, ready \in BOOLEAN : FxWithExternal(n, ready)
    \/ \E vals \in SeqsUpTo(Msgs, MaxTasks), n \in 0..MaxTasks : FxExtend(vals, n)
    \/ FxNoRender
    \/ \E name \in Names : FxMeasureWithName(name)
    \/ MkFromEffects
    \/ Take
    \/ Emit
    \/ \E id \in 1..Len(tasks) : Resolve(id)

SpecConv == Init /\ [][NextConv]_vars

----------------------------------------------------------------------------
(* What the program observed. *)

EventsOf(kind) == SelectSeq(trace, LAMBDA e : e.ev = kind)

IndexOf(kind) == {i \in 1..Len(trace) : trace[i].ev = kind}

Calls == EventsOf("call")

\* The position of emit's return in the trace (0 before emit has returned).
ReturnedAt == IF IndexOf("emit_return") = {} THEN 0
              ELSE CHOOSE i \in IndexOf("emit_return") : TRUE

OutsOf(local) == [j \in 1..Len(local) |-> local[j].out]

FromBundle == st = "Emitted" /\ hist.kind = "effects" /\ hist.fx[1].external = <<>>

\* C1: a local-only bundle with N local tasks, converted with Cmd::from and
\* emitted, makes exactly one dispatch_multiple call carrying the N resolved
\* values in the order of the local channel, and no dispatch call.
C1_OneDispatchMultipleOfResolvedValues ==
    FromBundle =>
        /\ Len(EventsOf("dispatch_multiple")) = 1
        /\ EventsOf("dispatch_multiple")[1].msgs = OutsOf(hist.fx[1].local)
        /\ EventsOf("dispatch") = <<>>

\* Nothing is invoked before emit; after it the calls are the emitted queue,
\* callback by callback, each with a duplicate handle of its own.
CallsAreTheQueue ==
    /\ st # "Emitted" => Calls = <<>>
    /\ st = "Emitted" =>
          /\ Len(Calls) = Len(emitted)
          /\ \A k \in 1..Len(emitted) :
                /\ Calls[k].cb = emitted[k]
                /\ Calls[k].handle # 0
                /\ \A j \in 1..Len(emitted) :
                      j # k => Calls[j].handle # Calls[k].handle

\* Once Emitted the instance stays Emitted, holds no Cmd and no further
\* callback is invoked.
EmittedIsTerminal ==
    [][st = "Emitted" => (st' = "Emitted" /\ cmd' = <<>> /\ Calls' = Calls)]_vars

\* C2: emit invokes every queued callback exactly once, in queue order, each
\* with its own duplicate of the program handle; emit consumes the Cmd, so no
\* callback is invoked a second time and nothing leaves the Emitted state.
C2_EmitInvokesEachCallbackOnceInOrder ==
    [](CallsAreTheQueue) /\ EmittedIsTerminal

\* An emitted Cmd merged from two different callbacks, with the scheduler
\* having run after emit.
C2_Witness ==
    /\ st = "Emitted" /\ Len(emitted) = 2 /\ emitted[1] # emitted[2]
    /\ hist.kind \in {"push", "append"}
    /\ Len(EventsOf("dispatch")) > 0

FromTask == st = "Emitted" /\ hist.kind = "task"

\* C3: a Cmd built from a single Task, once emitted, makes exactly one
\* dispatch call for the task, with the task's resolved value and only after
\* the task has resolved; while the task is unresolved nothing is dispatched
\* and the program sees nothing else.
C3_SingleTaskDispatchesOnceAfterResolution ==
    FromTask =>
        LET task == tasks[hist.task]
            ds   == EventsOf("dispatch")
        IN  /\ EventsOf("dispatch_multiple") = <<>>
            /\ Len(ds) <= 1
            /\ \A k \in 1..Len(ds) :
                  /\ ds[k].task = task.id
                  /\ ds[k].msgs = <<task.out>>
                  /\ IsResolved(task, done)
            /\ ~IsResolved(task, done) => ds = <<>>
            /\ (IsResolved(task, done) /\ runq = <<>>) => Len(ds) = 1
            /\ \A i \in 1..Len(trace) :
                  trace[i].ev \in {"call", "spawn", "emit_return", "dispatch"}

\* An emitted single-task Cmd whose asynchronous task resolved and was
\* dispatched.
C3_Witness ==
    /\ FromTask /\ ~tasks[hist.task].ready
    /\ hist.task \in done /\ Len(EventsOf("dispatch")) = 1

\* C4: the dispatch_multiple call of a bundle's callback happens before emit
\* returns, and no dispatch of a spawned task happens before emit returns.
C4_SyncBeforeReturnAsyncAfter ==
    st = "Emitted" =>
        /\ ReturnedAt = Len(Calls) + Len(EventsOf("spawn"))
                        + Cardinality({k \in 1..Len(emitted) :
                                          emitted[k].kind = "batch_msg"}) + 1
        /\ \A k \in 1..Len(emitted) :
              /\ emitted[k].kind = "batch_msg" =>
                    \E i \in 1..ReturnedAt :
                        /\ trace[i].ev = "dispatch_multiple"
                        /\ trace[i].handle = Calls[k].handle
                        /\ Len(trace[i].msgs) = Len(emitted[k].msg_list)
              /\ emitted[k].kind = "task" =>
                    \A i \in 1..Len(trace) :
                        (trace[i].ev = "dispatch" /\ trace[i].task = emitted[k].task.id)
                            => i > ReturnedAt

\* A queue of a ready task's callback followed by a bundle's callback, with the
\* task's dispatch made after emit returned.
C4_Witness ==
    /\ st = "Emitted" /\ Len(emitted) = 2
    /\ emitted[1].kind = "task" /\ emitted[1].task.ready
    /\ emitted[2].kind = "batch_msg" /\ emitted[2].msg_list # <<>>
    /\ \E i \in IndexOf("dispatch") : i > ReturnedAt

\* C5: the Cmd converted from a local-only bundle dispatches nothing from the
\* bundle until every local task has resolved, then makes one
\* dispatch_multiple call with all results; no message of the bundle is
\* dispatched on its own.
C5_BundleDispatchAwaitsEveryTask ==
    st = "Emitted" =>
        \A k \in 1..Len(emitted) :
            emitted[k].kind = "batch_msg" =>
                /\ \A i \in IndexOf("dispatch_multiple") :
                      trace[i].handle = Calls[k].handle =>
                          trace[i].msgs = OutsOf(emitted[k].msg_list)
                /\ \A j \in 1..Len(emitted[k].msg_list) :
                      \A i \in IndexOf("dispatch") :
                          trace[i].task # emitted[k].msg_list[j].id

\* C11: converting a local-only bundle to a Cmd carries the bundle's modifier
\* over unchanged in all three fields; once emitted there is exactly one
\* dispatch_multiple call carrying all local messages whatever the value of
\* should_update_view, followed by exactly one render when should_update_view
\* is true and by none when the bundle was built with no_render().
C11_ModifierCarriedAndRenderGated ==
    FromBundle =>
        /\ view.modifier = hist.fx[1].modifier
        /\ Len(EventsOf("dispatch_multiple")) = 1
        /\ EventsOf("dispatch_multiple")[1].msgs = OutsOf(hist.fx[1].local)
        /\ view.renders = (IF hist.fx[1].modifier.should_update_view THEN 1 ELSE 0)

FromNone == st = "Emitted" /\ hist.kind = "none"

\* C13: Cmd::none().emit(p) makes no dispatch and no dispatch_multiple call on
\* the program and leaves the program as it was: no callback runs, nothing is
\* spawned, nothing is rendered.
C13_NoneEmitsNothing ==
    FromNone =>
        /\ EventsOf("dispatch") = <<>>
        /\ EventsOf("dispatch_multiple") = <<>>
        /\ Calls = <<>> /\ EventsOf("spawn") = <<>>
        /\ runq = <<>> /\ waiting = {}
        /\ view.renders = 0

\* Cmd::none() was emitted and emit has returned.
C13_Witness == FromNone /\ ReturnedAt = 1 /\ emitted = <<>>

----------------------------------------------------------------------------
(* Effects algebra: the input bundles are drawn in the initial state, their  *)
(* modifiers are set with the builder methods, and one operator is applied.  *)

\* shape[k] = <<number of local messages, number of external messages>> of bundle k
Shapes ==
    UNION {[1..n -> (0..MaxItems) \X (0..MaxItems)] : n \in 0..MaxBundles}

RECURSIVE Total(_)
Total(shape) ==
    IF shape = <<>> THEN 0 ELSE shape[1][1] + shape[1][2] + Total(Tail(shape))

RECURSIVE BuildArgs(_, _, _)
BuildArgs(shape, vals, base) ==
    IF shape = <<>> THEN <<>>
    ELSE LET l == shape[1][1]
             x == shape[1][2]
         IN  <<Effects_new(base, SubSeq(vals, base + 1, base + l),
                                 SubSeq(vals, base + l + 1, base + l + x))>>
             \o BuildArgs(Tail(shape), vals, base + l + x)

InArgs ==
    {BuildArgs(shape, vals, 0) :
        <<shape, vals>> \in {sv \in Shapes \X SeqsUpTo(Msgs, MaxItems) :
                                Total(sv[1]) = Len(sv[2])}}

Applied(op, f, out) == <<[op |-> op, f |-> f, out |-> out]>>

InitFx ==
    /\ RuntimeInit
    /\ args \in InArgs /\ res = <<>>
    /\ cargs = <<>> /\ cself = <<>> /\ cres = <<>>

ArgNoRender(i) ==
    /\ res = <<>> /\ args[i].modifier.should_update_view
    /\ args' = [args EXCEPT ![i] = Effects_no_render(@)]
    /\ UNCHANGED <<res, cargs, cself, cres>> /\ runtimeIdle

ArgMeasure(i) ==
    /\ res = <<>> /\ ~args[i].modifier.log_measurements
    /\ args' = [args EXCEPT ![i] = Effects_measure(@)]
    /\ UNCHANGED <<res, cargs, cself, cres>> /\ runtimeIdle

ApplyBatch ==
    /\ res = <<>>
    /\ res' = Applied("batch", Swap, Effects_batch(args))
    /\ UNCHANGED <<args, cargs, cself, cres>> /\ runtimeIdle

ApplyLocalize(f) ==
    /\ res = <<>> /\ args # <<>>
    /\ res' = Applied("localize", f, Effects_localize(args[1], f))
    /\ UNCHANGED <<args, cargs, cself, cres>> /\ runtimeIdle

ApplyMapMsg(f) ==
    /\ res = <<>> /\ args # <<>>
    /\ res' = Applied("map_msg", f, Effects_map_msg(args[1], f))
    /\ UNCHANGED <<args, cargs, cself, cres>> /\ runtimeIdle

\* map_external on the first bundle, or chained on the result of its map_msg.
ApplyMapExternal(f) ==
    /\ args # <<>> /\ (res = <<>> \/ (Len(res) = 1 /\ res[1].op = "map_msg"))
    /\ res' = res \o Applied("map_external", f,
                     Effects_map_external(IF res = <<>> THEN args[1] ELSE res[1].out, f))
    /\ UNCHANGED <<args, cargs, cself, cres>> /\ runtimeIdle

NextFx ==
    \/ \E i \in 1..Len(args) : ArgNoRender(i)
    \/ \E i \in 1..Len(args) : ArgMeasure(i)
    \/ ApplyBatch
    \/ \E f \in Fs : ApplyLocalize(f)
    \/ \E f \in Fs : ApplyMapMsg(f)
    \/ \E f \in Fs : ApplyMapExternal(f)

SpecFx == InitFx /\ [][NextFx]_vars

----------------------------------------------------------------------------
(* Cmd algebra: the input commands and the receiver are drawn in the initial *)
(* state, their modifiers are set with the builder methods, and batch,       *)
(* append or push is applied.                                                *)

InCmds == {Cmd_none} \cup {Cmd_new(Closure(f)) : f \in Fns}

InitCmd ==
    /\ RuntimeInit
    /\ args = <<>> /\ res = <<>>
    /\ cargs \in SeqsUpTo(InCmds, MaxCmds)
    /\ cself \in {<<c>> : c \in InCmds}
    /\ cres = [batch |-> <<>>, append |-> <<>>, op |-> ""]

Unapplied == cres.batch = <<>> /\ cres.append = <<>>

CmdArgNoRender(i) ==
    /\ Unapplied /\ cargs[i].modifier.should_update_view
    /\ cargs' = [cargs EXCEPT ![i] = Cmd_no_render(@)]
    /\ UNCHANGED <<args, res, cself, cres>> /\ runtimeIdle

CmdArgMeasure(i) ==
    /\ Unapplied /\ ~cargs[i].modifier.log_measurements
    /\ cargs' = [cargs EXCEPT ![i] = Cmd_measure(@)]
    /\ UNCHANGED <<args, res, cself, cres>> /\ runtimeIdle

SelfShouldUpdateView(b) ==
    /\ Unapplied /\ cself[1].modifier.should_update_view # b
    /\ cself' = <<Cmd_should_update_view(cself[1], b)>>
    /\ UNCHANGED <<args, res, cargs, cres>> /\ runtimeIdle

SelfMeasure ==
    /\ Unapplied /\ ~cself[1].modifier.log_measurements
    /\ cself' = <<Cmd_measure(cself[1])>>
    /\ UNCHANGED <<args, res, cargs, cres>> /\ runtimeIdle

ApplyCmdBatch ==
    /\ cres.batch = <<>>
    /\ cres' = [cres EXCEPT !.batch = <<Cmd_batch(cargs)>>]
    /\ UNCHANGED <<args, res, cargs, cself>> /\ runtimeIdle

ApplyCmdAppend ==
    /\ cres.append = <<>>
    /\ cres' = [cres EXCEPT !.append = <<Cmd_append(cself[1], cargs)>>, !.op = "append"]
    /\ UNCHANGED <<args, res, cargs, cself>> /\ runtimeIdle

ApplyCmdPush ==
    /\ cres.append = <<>> /\ Len(cargs) = 1
    /\ cres' = [cres EXCEPT !.append = <<Cmd_push(cself[1], cargs[1])>>, !.op = "push"]
    /\ UNCHANGED <<args, res, cargs, cself>> /\ runtimeIdle

NextCmd ==
    \/ \E i \in 1..Len(cargs) : CmdArgNoRender(i)
    \/ \E i \in 1..Len(cargs) : CmdArgMeasure(i)
    \/ \E b \in BOOLEAN : SelfShouldUpdateView(b)
    \/ SelfMeasure
    \/ ApplyCmdBatch
    \/ ApplyCmdAppend
    \/ ApplyCmdPush

SpecCmd == InitCmd /\ [][NextCmd]_vars

\* Measurement names: the same inputs, named with measure_with_name and merged.
CmdArgMeasureWithName(i, name) ==
    /\ Unapplied
    /\ cargs' = [cargs EXCEPT ![i] = Cmd_measure_with_name(@, name)]
    /\ UNCHANGED <<args, res, cself, cres>> /\ runtimeIdle

SelfMeasureWithName(name) ==
    /\ Unapplied
    /\ cself' = <<Cmd_measure_with_name(cself[1], name)>>
    /\ UNCHANGED <<args, res, cargs, cres>> /\ runtimeIdle

NextName ==
    \/ \E i \in 1..Len(cargs), name \in Names : CmdArgMeasureWithName(i, name)
    \/ \E name \in Names : SelfMeasureWithName(name)
    \/ ApplyCmdBatch
    \/ ApplyCmdAppend
    \/ ApplyCmdPush

SpecName == InitCmd /\ [][NextName]_vars

----------------------------------------------------------------------------
(* The conversion of a sequence of bundles: an update function collects      *)
(* local-only bundles in `args`, the sequence is converted to one Cmd, and   *)
(* that Cmd is emitted.                                                      *)

VecPush(vals, ready) ==
    /\ st = "Absent" /\ Len(args) < MaxBundles /\ Len(tasks) + Len(vals) <= MaxTasks
    /\ LET e == IF ready THEN Effects_with_local(Len(tasks), vals)
                         ELSE Effects_with_local_async(Len(tasks), vals) IN
          /\ args' = Append(args, e)
          /\ tasks' = tasks \o e.local
    /\ UNCHANGED <<fx, pool, cmd, st, hist, emitted, done, runq, waiting, trace, view>>
    /\ UNCHANGED <<res, cmdVars>>

VecNoRender(i) ==
    /\ st = "Absent" /\ args[i].modifier.should_update_view
    /\ args' = [args EXCEPT ![i] = Effects_no_render(@)]
    /\ UNCHANGED <<res, cmdVars>> /\ runtimeIdle

MkFromVec ==
    /\ st = "Absent"
    /\ cmd' = <<Cmd_from_Vec(args)>> /\ hist' = Origin("vec", <<>>, 0)
    /\ st' = "Constructed"
    /\ UNCHANGED <<fx, pool, emitted, tasks, done, runq, waiting, trace, view>>
    /\ algIdle

NextVec ==
    \/ \E vals \in SeqsUpTo(Msgs, MaxTasks), ready \in BOOLEAN : VecPush(vals, ready)
    \/ \E i \in 1..Len(args) : VecNoRender(i)
    \/ MkFromVec
    \/ Emit
    \/ \E id \in 1..Len(tasks) : Resolve(id)

SpecVec == Init /\ [][NextVec]_vars



----------------------------------------------------------------------------
(* Claims about the Effects algebra (SpecFx). *)

Batched == res # <<>> /\ res[1].op = "batch"

RECURSIVE ConcatChannel(_, _)
ConcatChannel(bundles, channel) ==
    IF bundles = <<>> THEN <<>>
    ELSE (IF channel = "local" THEN bundles[1].local ELSE bundles[1].external)
         \o ConcatChannel(Tail(bundles), channel)

Ids(ts) == {ts[i].id : i \in 1..Len(ts)}

\* C6: Effects::batch([b1, b2]) has should_update_view true if and only if b1
\* or b2 has it true; two no_render() bundles batch to should_update_view
\* false.
C6_BatchRendersIffSomeInputRenders ==
    (Batched /\ Len(args) = 2) =>
        (res[1].out.modifier.should_update_view
            <=> (args[1].modifier.should_update_view
                    \/ args[2].modifier.should_update_view))

\* C7: Effects::batch(bundles) has as local channel the inputs' local channels
\* concatenated in input order and as external channel the inputs' external
\* channels concatenated in input order; no task is lost, duplicated,
\* reordered or moved to the other channel.
C7_BatchConcatenatesChannels ==
    Batched =>
        LET out == res[1].out IN
        /\ out.local = ConcatChannel(args, "local")
        /\ out.external = ConcatChannel(args, "external")
        /\ Len(out.local) + Len(out.external) = Total([k \in 1..Len(args) |->
                <<Len(args[k].local), Len(args[k].external)>>])
        /\ Cardinality(Ids(out.local) \cup Ids(out.external))
              = Len(out.local) + Len(out.external)

\* Two batched bundles, both with local tasks, the second with external ones.
C7_Witness ==
    /\ Batched /\ Len(args) = 2
    /\ args[1].local # <<>> /\ args[2].local # <<>> /\ args[2].external # <<>>
    /\ args[1].local[1].out # args[2].local[1].out

InputOf(k) == IF k = 1 THEN args[1] ELSE res[k - 1].out

\* `mapped` holds the tasks of `ts`, as many and in the same order, each with f
\* applied to its result.
MappedBy(mapped, ts, f) ==
    /\ Len(mapped) = Len(ts)
    /\ \A i \in 1..Len(ts) :
          /\ mapped[i].id = ts[i].id
          /\ mapped[i].out = f[ts[i].out]
          /\ mapped[i].ready = ts[i].ready

\* C17: map_msg(f) applies f to the result of every local task, keeping the
\* number and order of the local tasks, and leaves the external channel and
\* the modifier unchanged; map_external(f) rewrites the external channel in
\* the same way and leaves the local channel and the modifier unchanged.
C17_MapRewritesOneChannelOnly ==
    \A k \in 1..Len(res) :
        LET in  == InputOf(k)
            out == res[k].out
        IN  /\ res[k].op = "map_msg" =>
                  /\ MappedBy(out.local, in.local, res[k].f)
                  /\ out.external = in.external
                  /\ out.modifier = in.modifier
            /\ res[k].op = "map_external" =>
                  /\ MappedBy(out.external, in.external, res[k].f)
                  /\ out.local = in.local
                  /\ out.modifier = in.modifier

\* map_msg and then map_external were applied, with functions that change
\* every result, to a bundle built with no_render() that holds two different
\* local tasks and an external one.
C17_Witness ==
    /\ Len(res) = 2 /\ res[1].op = "map_msg" /\ res[2].op = "map_external"
    /\ res[1].f = Swap /\ res[2].f = Swap
    /\ Len(args[1].local) = 2 /\ Len(args[1].external) = 1
    /\ args[1].local[1].out # args[1].local[2].out
    /\ ~args[1].modifier.should_update_view

----------------------------------------------------------------------------
(* Claims about the Cmd algebra (SpecCmd). *)

Flags(m) == <<m.should_update_view, m.log_measurements>>

ModifiersInState == {cargs[i].modifier : i \in 1..Len(cargs)} \cup {cself[1].modifier}

\* C9: Cmd::batch(cmds) has the same callback queue, should_update_view and
\* log_measurements as a fresh Cmd::none() after append(cmds), for every list
\* cmds.
C9_BatchEqualsAppendToNone ==
    (cres.batch # <<>> /\ cres.append # <<>> /\ cres.op = "append"
        /\ cself[1] = Cmd_none) =>
        /\ cres.batch[1].commands = cres.append[1].commands
        /\ Flags(cres.batch[1].modifier) = Flags(cres.append[1].modifier)

\* C10: merging modifiers is commutative and idempotent on should_update_view
\* and log_measurements, for the merge written out in Cmd::append and
\* Cmd::batch and for the one Effects::batch uses.
C10_MergeCommutativeIdempotent ==
    /\ (cres.append # <<>> /\ cres.op = "push") =>
          /\ Flags(cres.append[1].modifier)
                = Flags(Cmd_push(cargs[1], cself[1]).modifier)
          /\ Flags(Cmd_push(cself[1], cself[1]).modifier) = Flags(cself[1].modifier)
    /\ (cres.batch # <<>> /\ Len(cargs) = 2) =>
          /\ Flags(cres.batch[1].modifier)
                = Flags(Cmd_batch(<<cargs[2], cargs[1]>>).modifier)
          /\ \A i \in 1..2 :
                Flags(Cmd_batch(<<cargs[i], cargs[i]>>).modifier)
                    = Flags(cargs[i].modifier)
    /\ \A A \in ModifiersInState, B \in ModifiersInState :
          /\ Flags(coalesce(A, B)) = Flags(coalesce(B, A))
          /\ Flags(coalesce(A, A)) = Flags(A)

\* A push and a batch applied to commands whose two flags both differ.
C10_Witness ==
    /\ cres.append # <<>> /\ cres.op = "push" /\ cres.batch # <<>>
    /\ cself[1].modifier.should_update_view /\ ~cargs[1].modifier.should_update_view
    /\ ~cself[1].modifier.log_measurements /\ cargs[1].modifier.log_measurements

\* The measurement_name set last, in merge order, among `cmds`; "" when none
\* of them was named.
RECURSIVE LastName(_)
LastName(cmds) ==
    IF cmds = <<>> THEN ""
    ELSE LET last == cmds[Len(cmds)].modifier.measurement_name IN
         IF last # "" THEN last ELSE LastName(SubSeq(cmds, 1, Len(cmds) - 1))

\* C12: the measurement_name of the result of Cmd::batch, Cmd::push or
\* Cmd::append is the most recently set non-empty measurement_name among the
\* merged commands, in merge order; a name given to an input with
\* measure_with_name is not lost by the merge.
C12_MergeKeepsLatestMeasurementName ==
    /\ cres.batch # <<>> =>
          cres.batch[1].modifier.measurement_name = LastName(cargs)
    /\ cres.append # <<>> =>
          cres.append[1].modifier.measurement_name = LastName(cself \o cargs)

RECURSIVE ConcatCommands(_)
ConcatCommands(cmds) ==
    IF cmds = <<>> THEN <<>> ELSE cmds[1].commands \o ConcatCommands(Tail(cmds))

\* C15: after self.append(cmds), and after push, which appends one command,
\* self's callback queue is its previous queue followed by the queues of cmds
\* in input order, and each of should_update_view and log_measurements is true
\* exactly when it was true in self before the call or is true in at least one
\* appended command; a flag that was true is never turned to false.
C15_AppendExtendsQueueAndRaisesFlags ==
    cres.append # <<>> =>
        LET self   == cself[1]
            r      == cres.append[1]
        IN  /\ r.commands = self.commands \o ConcatCommands(cargs)
            /\ r.modifier.should_update_view
                  <=> (self.modifier.should_update_view
                          \/ \E i \in 1..Len(cargs) : cargs[i].modifier.should_update_view)
            /\ r.modifier.log_measurements
                  <=> (self.modifier.log_measurements
                          \/ \E i \in 1..Len(cargs) : cargs[i].modifier.log_measurements)
            /\ self.modifier.should_update_view => r.modifier.should_update_view
            /\ self.modifier.log_measurements => r.modifier.log_measurements

\* An append of two commands with different callbacks to a receiver with a
\* callback of its own: one flag is raised by an appended command, the other
\* was true in the receiver only.
C15_Witness ==
    /\ cres.append # <<>> /\ cres.op = "append" /\ Len(cargs) = 2
    /\ cself[1].commands # <<>>
    /\ cargs[1].commands # <<>> /\ cargs[2].commands # <<>>
    /\ cargs[1].commands # cargs[2].commands /\ cargs[1].commands # cself[1].commands
    /\ ~cself[1].modifier.should_update_view
    /\ ~cargs[1].modifier.should_update_view /\ cargs[2].modifier.should_update_view
    /\ cself[1].modifier.log_measurements
    /\ ~cargs[1].modifier.log_measurements /\ ~cargs[2].modifier.log_measurements

TaskCallbacks == SelectSeq(emitted, LAMBDA cb : cb.kind = "task")

\* The position in the trace of the dispatch made for task `id` (0 if none).
DispatchedAt(id) ==
    LET at == {i \in IndexOf("dispatch") : trace[i].task = id} IN
    IF at = {} THEN 0 ELSE CHOOSE i \in at : TRUE

\* C16: when a Cmd holding several Task-derived callbacks is emitted, the tasks
\* are spawned in insertion order, and each task is dispatched at most once and
\* only after its own spawn.  The order of the dispatches across tasks is not
\* fixed by the insertion order: C16_Witness is an execution in which a
\* later-inserted task is dispatched first.
C16_SpawnInOrderDispatchAfterOwnSpawn ==
    st = "Emitted" =>
        LET spawns == EventsOf("spawn") IN
        /\ Len(spawns) = Len(TaskCallbacks)
        /\ \A k \in 1..Len(spawns) : spawns[k].task = TaskCallbacks[k].task.id
        /\ \A i \in IndexOf("dispatch") :
              /\ \E j \in IndexOf("spawn") : j < i /\ trace[j].task = trace[i].task
              /\ \A j \in IndexOf("dispatch") : trace[j].task = trace[i].task => j = i

\* Two Task-derived callbacks were emitted, both tasks were dispatched, and the
\* dispatch for the second one came before the dispatch for the first.
C16_Witness ==
    /\ st = "Emitted" /\ Len(emitted) = 2 /\ Len(TaskCallbacks) = 2
    /\ DispatchedAt(emitted[1].task.id) # 0 /\ DispatchedAt(emitted[2].task.id) # 0
    /\ DispatchedAt(emitted[2].task.id) < DispatchedAt(emitted[1].task.id)

FromAnyBundle == st = "Emitted" /\ hist.kind = "effects"

FromVec == st = "Emitted" /\ hist.kind = "vec"

\* C14: converting a sequence of local-only bundles to a Cmd is the same as
\* batching them with Effects::batch and converting the result; emitting it
\* makes exactly one dispatch_multiple call, whose message list is the
\* concatenation of the local results of all the bundles in sequence order,
\* and not one call per bundle.
C14_VecConvertsAsBatch ==
    FromVec =>
        LET batched == Cmd_from_Effects(Effects_batch(args)) IN
        /\ emitted = batched.commands
        /\ view.modifier = batched.modifier
        /\ Len(EventsOf("dispatch_multiple")) = 1
        /\ EventsOf("dispatch_multiple")[1].msgs = OutsOf(ConcatChannel(args, "local"))
        /\ EventsOf("dispatch") = <<>>

====
